---- MODULE Spec2Model ----
(***************************************************************************)
(* The chat session view of the three example front ends:                  *)
(*   v001  whole-response chat    (example/001-vite/README.md, App)        *)
(*   v003  streaming chat         (example/003-stream/.../App.jsx)         *)
(*   v004  streaming + markdown   (example/004-chatgpt App, part_000)      *)
(* Each is one React component holding `input` and `messages`, whose       *)
(* async handler sendMessage is suspended at every await.  A call of       *)
(* sendMessage is a record in `calls`; its pc is the await it is parked    *)
(* at.  Text is a sequence of code points, a chunk a sequence of bytes.    *)
(* The environment resolves or rejects the fetch, hands out chunks and the *)
(* end of the stream, and resolves or rejects res.json(); a reader.read()  *)
(* that rejects in mid-stream is not modelled.                             *)
(***************************************************************************)
EXTENDS Integers, Sequences, FiniteSets, TLC

VARIABLES variant, input, messages, calls

vars == <<variant, input, messages, calls>>

\* ---------------------------------------------------------------- bounds
\* sendMessage invocations that issue a request, per session
MaxCalls == 2
\* chunks the transport delivers in one session, over all response bodies
MaxChunks == 2

\* ------------------------------------------------------------ input sets
Variants == {"v001", "v003", "v004"}
Streaming == {"v003", "v004"}

\* values the input field can hold: "", " ", "a"
Inputs == {<< >>, <<32>>, <<97>>}

\* byte chunks the transport can hand to reader.read(): "H", and the
\* first and the second byte of U+00E9 (C3 A9), each in a chunk of its own
ChunkValues == {<<72>>, <<195>>, <<169>>}

\* values of data.reply in the whole-response variant: "", "h"
Replies == {<< >>, <<104>>}

\* ------------------------------------------------------- TextDecoder
\* U+FFFD, what a non-fatal TextDecoder emits for a malformed sequence
REPLACEMENT == 65533

\* new TextDecoder().decode(value): UTF-8, non-fatal, and without
\* {stream: true}, so the decoder state is flushed at the end of each call.
\* cp/needed/lo/hi are the decoder's code point, bytes needed and the
\* bounds of the next continuation byte.
RECURSIVE utf8(_, _, _, _, _, _)
utf8(b, cp, needed, lo, hi, out) ==
  IF b = << >>
  THEN IF needed # 0 THEN Append(out, REPLACEMENT) ELSE out
  ELSE LET x == Head(b)
           r == Tail(b)
       IN IF needed = 0
          THEN IF x <= 127 THEN utf8(r, 0, 0, 128, 191, Append(out, x))
               ELSE IF x >= 194 /\ x <= 223
                 THEN utf8(r, x % 32, 1, 128, 191, out)
               ELSE IF x >= 224 /\ x <= 239
                 THEN utf8(r, x % 16, 2, IF x = 224 THEN 160 ELSE 128,
                           IF x = 237 THEN 159 ELSE 191, out)
               ELSE IF x >= 240 /\ x <= 244
                 THEN utf8(r, x % 8, 3, IF x = 240 THEN 144 ELSE 128,
                           IF x = 244 THEN 143 ELSE 191, out)
               ELSE utf8(r, 0, 0, 128, 191, Append(out, REPLACEMENT))
          ELSE IF x < lo \/ x > hi
               THEN utf8(b, 0, 0, 128, 191, Append(out, REPLACEMENT))
               ELSE IF needed = 1
                    THEN utf8(r, 0, 0, 128, 191, Append(out, cp * 64 + (x % 64)))
                    ELSE utf8(r, cp * 64 + (x % 64), needed - 1, 128, 191, out)

decode(value) == utf8(value, 0, 0, 128, 191, << >>)

\* ------------------------------------------------------------- helpers
Msg(r, c) == [role |-> r, content |-> c]

\* `if (!input) return;` : only the empty string is falsy
Falsy(s) == s = << >>

\* the guard at the top of sendMessage; 003 has none
Guarded == variant \in {"v001", "v004"}

InFlight(c) == c.pc \in {"fetch", "read", "json"}

\* chunks delivered so far to the calls 1..n
RECURSIVE Delivered(_, _)
Delivered(cs, n) ==
  IF n = 0 THEN 0 ELSE Len(cs[n].chunks) + Delivered(cs, n - 1)

\* bug variant of Appended: the empty assistant entry is forgotten
AppendedUserOnly(s) == << Msg("user", s) >>

\* the entries sendMessage appends before its first await
Appended(s) ==
  IF variant = "v001"
  THEN << Msg("user", s) >>
  ELSE << Msg("user", s), Msg("ai", << >>) >>

\* bug variants of SetLast:
\* the accumulator is appended to the shown content instead of replacing it
SetLastDelta(prev, aiText) ==
  [prev EXCEPT ![Len(prev)].content = @ \o aiText]

\* the copy forgets `...prev` and keeps the new entry only
SetLastAlone(prev, aiText) == << Msg("ai", aiText) >>

\* the updater writes to the first assistant entry instead of the last one
SetLastFirst(prev, aiText) == [prev EXCEPT ![2].content = aiText]

\* the updater of the streaming loop, applied to the current transcript
SetLast(prev, aiText) ==
  IF variant = "v003"
  THEN [prev EXCEPT ![Len(prev)] = Msg("ai", aiText)]
  ELSE [prev EXCEPT ![Len(prev)].content = aiText]

NewCall(s) ==
  [pc |-> "fetch", message |-> s, aiText |-> << >>, chunks |-> << >>,
   reply |-> << >>, turn |-> Len(messages) + 1,
   overlap |-> \E j \in 1..Len(calls) : InFlight(calls[j])]

\* ---------------------------------------------------------------- Init
Init ==
  /\ variant \in Variants
  /\ input = << >>
  /\ messages = << >>
  /\ calls = << >>

\* --------------------------------------------------------------- actions
\* onChange={e => setInput(e.target.value)}
SetInput(s) ==
  /\ Len(calls) < MaxCalls
  /\ input' = s
  /\ UNCHANGED <<variant, messages, calls>>

\* onClick={sendMessage}: the handler up to its first await (the fetch)
SendMessage ==
  /\ Len(calls) < MaxCalls
  /\ IF Guarded /\ Falsy(input)
     THEN UNCHANGED vars
     ELSE /\ messages' = messages \o Appended(input)
          /\ input' = << >>
          /\ calls' = Append([j \in 1..Len(calls) |->
                                [calls[j] EXCEPT !.overlap =
                                   @ \/ InFlight(calls[j])]],
                             NewCall(input))
          /\ UNCHANGED variant

\* `await fetch(...)` resolves; the handler runs on to its next await
FetchResolve(i) ==
  /\ calls[i].pc = "fetch"
  /\ calls' = [calls EXCEPT ![i].pc =
                 IF variant = "v001" THEN "json" ELSE "read"]
  /\ UNCHANGED <<variant, input, messages>>

\* bug variant of FetchReject: a catch block that writes into the transcript
FetchRejectShown(i) ==
  /\ calls[i].pc = "fetch"
  /\ calls' = [calls EXCEPT ![i].pc = "failed"]
  /\ messages' = [messages EXCEPT ![Len(messages)].content = <<33>>]
  /\ UNCHANGED <<variant, input>>

\* `await fetch(...)` rejects: the handler's promise rejects, nothing runs
FetchReject(i) ==
  /\ calls[i].pc = "fetch"
  /\ calls' = [calls EXCEPT ![i].pc = "failed"]
  /\ UNCHANGED <<variant, input, messages>>

\* `await reader.read()` yields {value, done: false}
ReadChunk(i, value) ==
  /\ calls[i].pc = "read"
  /\ Delivered(calls, Len(calls)) < MaxChunks
  /\ LET aiText == calls[i].aiText \o decode(value)
     IN /\ calls' = [calls EXCEPT ![i].aiText = aiText,
                                  ![i].chunks = Append(@, value)]
        /\ messages' = SetLast(messages, aiText)
  /\ UNCHANGED <<variant, input>>

\* `await reader.read()` yields {done: true}: break
ReadDone(i) ==
  /\ calls[i].pc = "read"
  /\ calls' = [calls EXCEPT ![i].pc = "done"]
  /\ UNCHANGED <<variant, input, messages>>

\* bug variant of JsonResolve: the reply overwrites the last entry, as the
\* streaming variants do, instead of being appended
JsonResolveOverwrite(i, reply) ==
  /\ calls[i].pc = "json"
  /\ calls' = [calls EXCEPT ![i].pc = "done", ![i].reply = reply]
  /\ messages' = [messages EXCEPT ![Len(messages)] = Msg("ai", reply)]
  /\ UNCHANGED <<variant, input>>

\* `await res.json()` resolves with {reply}
JsonResolve(i, reply) ==
  /\ calls[i].pc = "json"
  /\ calls' = [calls EXCEPT ![i].pc = "done", ![i].reply = reply]
  /\ messages' = Append(messages, Msg("ai", reply))
  /\ UNCHANGED <<variant, input>>

\* `await res.json()` rejects (malformed body)
JsonReject(i) ==
  /\ calls[i].pc = "json"
  /\ calls' = [calls EXCEPT ![i].pc = "failed"]
  /\ UNCHANGED <<variant, input, messages>>

Next ==
  \/ \E s \in Inputs : SetInput(s)
  \/ SendMessage
  \/ \E i \in 1..Len(calls) : FetchResolve(i)
  \/ \E i \in 1..Len(calls) : FetchReject(i)
  \/ \E i \in 1..Len(calls) : \E value \in ChunkValues : ReadChunk(i, value)
  \/ \E i \in 1..Len(calls) : ReadDone(i)
  \/ \E i \in 1..Len(calls) : \E reply \in Replies : JsonResolve(i, reply)
  \/ \E i \in 1..Len(calls) : JsonReject(i)

Spec == Init /\ [][Next]_vars

\* =============================================================== claims
\* vocabulary of the properties
IsStreaming == variant \in Streaming

Last(seq) == seq[Len(seq)]

\* "", " ", "  ", ... : empty or whitespace only
Blank(s) == \A k \in 1..Len(s) : s[k] = 32

\* every submit so far carried a non-blank text
AllTyped == \A j \in 1..Len(calls) : ~Blank(calls[j].message)

\* call i never had another call in flight beside it
Solo(i) == ~calls[i].overlap

\* the step is a sendMessage that got past its guard
Submits == SendMessage /\ Len(calls') = Len(calls) + 1

\* both entries of call i's turn are in the transcript
TurnPresent(i) ==
  /\ Len(messages) >= calls[i].turn + 1
  /\ messages[calls[i].turn] = Msg("user", calls[i].message)
  /\ messages[calls[i].turn + 1].role = "ai"

\* only the user entry of call i's turn is in the transcript
UserPresent(i) ==
  /\ Len(messages) >= calls[i].turn
  /\ messages[calls[i].turn] = Msg("user", calls[i].message)

C2_BlankSubmitIsNoOp ==
  [][SendMessage /\ Blank(input) => UNCHANGED <<messages, input, calls>>]_vars

\* ------------------------------------------------------------------ C3
\* C3: in every reachable state of every variant, whatever the submits
\* (of non-blank texts) and the deliveries were, the roles of the transcript
\* alternate user, ai, user, ai, ... from index 1 on.
C3_RolesAlternate ==
  AllTyped =>
    \A k \in 1..Len(messages) :
      messages[k].role = IF k % 2 = 1 THEN "user" ELSE "ai"

\* ------------------------------------------------------------------ C4
\* c1 + ... + cn: the decoded chunks, concatenated in arrival order
RECURSIVE StreamResult(_)
StreamResult(chunks) ==
  IF chunks = << >> THEN << >>
  ELSE StreamResult(SubSeq(chunks, 1, Len(chunks) - 1)) \o decode(Last(chunks))

\* the newest call is a streaming one that never overlapped another
SoloStream ==
  /\ IsStreaming
  /\ Len(calls) >= 1
  /\ Solo(Len(calls))

\* C4: streaming, one submit with no overlapping submit: the content of the
\* last entry is "" until the first chunk, after k chunks it is c1+...+ck,
\* each step either leaves it alone or is one chunk arrival that replaces it
\* by the old value followed by that chunk, and after end-of-stream no step
\* of that call changes it.
C4_CumulativeContent ==
  /\ [](SoloStream =>
          /\ Last(messages).role = "ai"
          /\ Last(messages).content = StreamResult(Last(calls).chunks))
  /\ [][SoloStream /\ Len(calls') = Len(calls) =>
          \/ /\ Last(calls').chunks = Last(calls).chunks
             /\ Last(messages') = Last(messages)
          \/ /\ Last(calls).pc = "read"
             /\ \E value \in ChunkValues :
                  /\ Last(calls').chunks = Append(Last(calls).chunks, value)
                  /\ Last(messages').content =
                       Last(messages).content \o decode(value)]_vars

\* one submit, chunks "H" then C3, end-of-stream: the content went through
\* "", "H", "H�" and stays there
C4_Witness ==
  /\ IsStreaming
  /\ Len(calls) = 1
  /\ calls[1].pc = "done"
  /\ calls[1].chunks = << <<72>>, <<195>> >>
  /\ Last(messages) = Msg("ai", <<72, REPLACEMENT>>)

\* ------------------------------------------------------------------ C5
Flatten(chunks) ==
  IF chunks = << >> THEN << >>
  ELSE LET F[k \in 0..Len(chunks)] ==
             IF k = 0 THEN << >> ELSE F[k - 1] \o chunks[k]
       IN F[Len(chunks)]

\* every way the transport can cut the bytes b into non-empty chunks
RECURSIVE Chunkings(_)
Chunkings(b) ==
  IF b = << >> THEN { << >> }
  ELSE UNION { { << SubSeq(b, 1, k) >> \o rest :
                   rest \in Chunkings(SubSeq(b, k + 1, Len(b))) } :
               k \in 1..Len(b) }

\* C5: streaming, a fresh session with one submit (of a non-blank text):
\* after end-of-stream the assistant content is what any other chunking of
\* the same bytes would have produced, a cut inside a multi-byte character
\* included.
C5_ChunkingIndependent ==
  /\ SoloStream
  /\ Len(calls) = 1
  /\ AllTyped
  /\ calls[1].pc = "done"
  =>
    \A ch \in Chunkings(Flatten(calls[1].chunks)) :
      Last(messages).content = StreamResult(ch)

\* ------------------------------------------------------------------ C6
\* the newest call is a whole-response one that never overlapped another
SoloWhole ==
  /\ variant = "v001"
  /\ Len(calls) >= 1
  /\ Solo(Len(calls))

\* C6: whole-response mode, one submit with no overlapping submit: until the
\* JSON body resolves the transcript ends with the submitted user message;
\* once it has resolved with {reply: r} the transcript is one entry longer and
\* its last entry is {ai, r}; the step that resolves is the only one between
\* the submit and the end of the call that changes the transcript.
C6_WholeResponse ==
  /\ [](SoloWhole =>
          LET c == Last(calls)
          IN IF c.pc = "done"
             THEN /\ Len(messages) = c.turn + 1
                  /\ messages[c.turn] = Msg("user", c.message)
                  /\ Last(messages) = Msg("ai", c.reply)
             ELSE /\ Len(messages) = c.turn
                  /\ Last(messages) = Msg("user", c.message))
  /\ [][SoloWhole /\ Len(calls') = Len(calls) /\ messages' # messages =>
          /\ Last(calls).pc = "json"
          /\ Last(calls').pc = "done"
          /\ messages' = Append(messages, Msg("ai", Last(calls').reply))]_vars

\* one submit of "a" answered by {reply: "h"}
C6_Witness ==
  /\ variant = "v001"
  /\ Len(calls) = 1
  /\ calls[1].pc = "done"
  /\ messages = << Msg("user", <<97>>), Msg("ai", <<104>>) >>

\* ------------------------------------------------------------------ C7
\* C7: in every step of every variant the transcript does not get shorter
\* and every entry but the one that is last before the step keeps its index,
\* its role and its content.
C7_OnlyLastMutates ==
  [][/\ Len(messages') >= Len(messages)
     /\ \A k \in 1..(Len(messages) - 1) : messages'[k] = messages[k]]_vars

\* a second turn's assistant entry has been written, the first turn is intact
C7_Witness ==
  /\ Len(messages) = 4
  /\ messages[4].content # << >>
  /\ messages[2].content # << >>
  /\ messages[2].content # messages[4].content

\* ------------------------------------------------------------------ C8
\* C8: streaming variants: once the reader of a submit has returned done,
\* no later step changes the content of that turn's assistant entry
\* (all submits being of non-blank texts).
C8_CompletedTurnImmutable ==
  [][IsStreaming /\ AllTyped =>
       \A i \in 1..Len(calls) :
         calls[i].pc = "done" =>
           messages'[calls[i].turn + 1].content =
             messages[calls[i].turn + 1].content]_vars

\* ------------------------------------------------------------------ C9
\* the step delivers a chunk to call i
ChunkTo(i) ==
  /\ Len(calls') = Len(calls)
  /\ Len(calls'[i].chunks) = Len(calls[i].chunks) + 1

\* a submit that passes the guard of sendMessage can be taken now
CanSubmit == ENABLED Submits

\* C9: streaming variants: a submit is accepted whatever the state of the
\* earlier calls is, and every chunk of a call sets the content of the entry
\* that is last in the transcript at that moment to the call's accumulator,
\* leaving every other entry alone; so a call whose turn is no longer the
\* last one writes into the newest turn's assistant entry and never again
\* into its own.
C9_ChunksHitLastEntry ==
  /\ [](IsStreaming /\ Len(calls) < MaxCalls /\ ~(Guarded /\ Falsy(input))
          => CanSubmit)
  /\ [][IsStreaming =>
          \A i \in 1..Len(calls) :
            ChunkTo(i) =>
              /\ Len(messages') = Len(messages)
              /\ Last(messages').content = calls'[i].aiText
              /\ Last(messages').role = "ai"
              /\ \A k \in 1..(Len(messages) - 1) : messages'[k] = messages[k]
              /\ calls[i].turn + 1 < Len(messages) =>
                    messages'[calls[i].turn + 1] = messages[calls[i].turn + 1]]_vars

\* B was submitted while A was in flight, B's chunk arrived, then A's chunk:
\* B's assistant entry shows A's text and A's own entry is still empty
C9_Witness ==
  /\ IsStreaming
  /\ Len(calls) = 2
  /\ calls[1].overlap /\ calls[2].overlap
  /\ Len(calls[1].chunks) = 1 /\ Len(calls[2].chunks) = 1
  /\ calls[1].aiText # calls[2].aiText
  /\ messages[4].content = calls[1].aiText
  /\ messages[2].content = << >>

\* ----------------------------------------------------------------- C10
\* call i failed and no other call was in flight beside it
SoloFailed(i) == calls[i].pc = "failed" /\ Solo(i)

====
